---- MODULE Spec2Model ----
(***************************************************************************)
(* Linked object families (crate `linked`) as used by                      *)
(* crates/linked/examples/linked_std_box.rs and as generated by            *)
(* crates/linked_macros_impl/src/linked_object.rs.                         *)
(*                                                                         *)
(* The payload type (EventCounter), the named static RECORDS_PROCESSED,    *)
(* the program main() and the three generated implementations are          *)
(* translated from those files.  The bodies of the runtime they delegate   *)
(* to (Family, Link, the static's lazy initialization) are not among the   *)
(* source files; they follow sections 3-5 and 7 of the specification,      *)
(* except where a call site fixes the behaviour: main() moves the value    *)
(* returned by RECORDS_PROCESSED.get() into a Box<dyn CountResult>, and    *)
(* only EventCounter implements CountResult, so get() returns an owned     *)
(* EventCounter by value.                                                  *)
(***************************************************************************)
EXTENDS Integers, Sequences, FiniteSets, TLC

\* main(): const THREAD_COUNT = 4, scaled down.
THREAD_COUNT == 2
\* main(): const RECORDS_PER_THREAD = 1_000, scaled down.
RECORDS_PER_THREAD == 2
\* Handles and instances, together, that a client of the API asks for in one
\* run, the constructions that fault included.
MaxObjects == 3
\* increment() calls a client of the API makes on the instances of one family.
MaxIncrements == 1
\* Fields, and generic parameters, of a declaration #[linked::object] is
\* applied to.
MaxFields == 2
MaxParams == 1

\* The thread that runs main(); the spawned threads are 1..THREAD_COUNT.
Main == 0
Workers == 1..THREAD_COUNT
Threads == Workers \cup {Main}
FamIds == 1..(MaxObjects + THREAD_COUNT)
HandleIds == 1..MaxObjects
InstIds == 1..(IF MaxObjects > THREAD_COUNT THEN MaxObjects ELSE THREAD_COUNT + 1)

VARIABLES
  once,        \* RECORDS_PROCESSED's initialization barrier: "uninit", "running", "done"
  staticFam,   \* the Family Identity RECORDS_PROCESSED holds (0: none yet)
  inits,       \* how many times RECORDS_PROCESSED's initializer has run
  fam,         \* Family Identities, by token
  nextFam,     \* the next unused token
  handle,      \* Family Handles, by id
  nextHandle,
  inst,        \* Instances, by id
  nextInst,
  pc,          \* each thread's position
  built,       \* per thread, the recipe invocations its get() calls have made
  invocations, \* the recipe invocations made in all
  faults,      \* the faults constructor recipes have raised
  raised,      \* the thread the last fault was propagated to (-1: none)
  iter,        \* per worker of main(), the loop index of `for _ in 0..RECORDS_PER_THREAD`
  reported,    \* per worker of main(), what finalize_counter_processing printed
  final_count, \* main(): `final_count` (-1: not yet read)
  input,       \* entrypoint(): `input`, the declaration #[linked::object] is applied to
  output       \* entrypoint(): the token stream returned (<<>>: not expanded yet)

vars == <<once, staticFam, inits, fam, nextFam, handle, nextHandle,
          inst, nextInst, pc, built, invocations, faults, raised, iter, reported,
          final_count, input, output>>

statics == <<once, staticFam, inits>>
mainVars == <<iter, reported, final_count>>
getVars == <<built>>
faultVars == <<invocations, faults, raised>>
macroVars == <<input, output>>

----------------------------------------------------------------------------
(* Data *)

\* A Family Identity that create() has not allocated yet.
NoFamily == [state |-> "unborn", rc |-> 0, global_count |-> 0]

\* EventCounter::new(), the part that runs once per family:
\*   let global_count = Arc::new(AtomicUsize::new(0));
\* and create(): a new Family Identity with reference count 1.
NewFamily == [state |-> "live", rc |-> 1, global_count |-> 0]

\* A handle: the token it wraps; src and expect are history: for a handle that
\* family() returned, the operation that made the instance it was called on and
\* the token of what that instance was made from.
NoHandle == [fam |-> 0, src |-> "none", expect |-> 0]

\* An instance that has not been constructed (state machine
\* Unconstructed -> Live -> Dropped).
NoInstance ==
  [state |-> "unconstructed", local_count |-> 0, global_count |-> 0, link |-> 0,
   erased |-> FALSE, via |-> "none", by |-> -1, origin |-> 0, born |-> 0,
   parentLocal |-> 0, incs |-> 0, after |-> 0]

\* An instance that has been dropped: nothing of it is left.
Dropped == [NoInstance EXCEPT !.state = "dropped"]

\* usize::MAX; the model's counts stay far below it.
USIZE_MAX == 2147483647

saturating_add(a, b) == IF a >= USIZE_MAX - b THEN USIZE_MAX ELSE a + b

\* AtomicUsize::fetch_add wraps around on overflow.
fetch_add(a, b) == IF a >= USIZE_MAX - b + 1 THEN a - (USIZE_MAX - b) - 1 ELSE a + b

\* The recipe captured by linked::new! in EventCounter::new():
\*   Self { local_count: 0, global_count: Arc::clone(&global_count) }
\* The Arc is the one its family's recipe captured: it is named by the token f.
new(f) == [local_count |-> 0, global_count |-> f]

\* The instance the construction surface makes of a payload: the payload plus
\* the Link to the Family Identity being constructed.  via, by, origin, born,
\* parentLocal, incs and after are history: the operation that made the
\* instance, the thread whose get() returned it (-1: no get()), the token of
\* the handle or instance it was made from, its local_count at construction,
\* the local_count of the instance it was cloned from at that time, the
\* increment() calls made on it, and the faults raised before it was made.
Linked(payload, f, via, by, parent, origin) ==
  [state |-> "live", local_count |-> payload.local_count,
   global_count |-> payload.global_count, link |-> f, erased |-> FALSE,
   via |-> via, by |-> by, origin |-> origin,
   born |-> payload.local_count,
   parentLocal |-> IF parent = 0 THEN 0 ELSE inst[parent].local_count,
   incs |-> 0, after |-> faults]

\* Atomic increment and decrement of a Family Identity's reference count; the
\* identity is destroyed when its last holder is dropped.
\* A decrement that destroys the identity one holder too early.
Release_early(fm, f) ==
  [fm EXCEPT ![f].rc = @ - 1,
             ![f].state = IF fm[f].rc <= 2 THEN "dead" ELSE @]

Retain(fm, f) == [fm EXCEPT ![f].rc = @ + 1]

Release(fm, f) ==
  [fm EXCEPT ![f].rc = @ - 1,
             ![f].state = IF fm[f].rc = 1 THEN "dead" ELSE @]

\* The outcomes one invocation of a client's recipe can have.
Outcomes == {TRUE, FALSE}

LiveHandles == {h \in HandleIds : handle[h].fam # 0}
LiveInstances == {i \in InstIds : inst[i].state = "live"}
\* Every live instance, as if a boxed one kept the whole of EventCounter's
\* interface.
Concrete_all == {i \in InstIds : inst[i].state = "live"}

\* Instances that still expose clone() and family().
Concrete == {i \in LiveInstances : ~inst[i].erased}
InGet(t) == pc[t] \in {"init", "wait", "construct"}

----------------------------------------------------------------------------
(* Family Handles and instances: the client-facing operations.  A client   *)
(* thread t is between operations when pc[t] = "ready".                     *)

Client(t) == pc[Main] = "api" /\ t \in Workers /\ pc[t] = "ready"

\* Some client thread is free to call an operation.  The operations that
\* construct nothing act the same whichever thread calls them.
Ready == \E t \in Workers : Client(t)

\* Whether a client may ask for one more handle or instance: those of get()
\* calls in progress are set aside.
Room ==
  (nextInst - 1) + (nextHandle - 1) + faults + Cardinality({u \in Workers : InGet(u)})
    < MaxObjects

\* An invocation that takes its reference before the recipe runs and keeps it
\* when the recipe faults.
Invoked_leaky(fm, f, ok) == Retain(fm, f)

\* One invocation of family f's recipe, as the families see it: a new
\* instance holds a reference, a fault leaves the identity as it was.
Invoked(fm, f, ok) == IF ok THEN Retain(fm, f) ELSE fm

\* The same invocation, as the caller t sees it: the new instance, or the
\* fault propagated to t and nothing else.
Constructed(t, f, via, by, parent, origin, ok) ==
  /\ invocations' = invocations + 1
  /\ faults' = IF ok THEN faults ELSE faults + 1
  /\ raised' = IF ok THEN raised ELSE t
  /\ IF ok
       THEN /\ nextInst \in InstIds
            /\ inst' = [inst EXCEPT ![nextInst] = Linked(new(f), f, via, by, parent, origin)]
            /\ nextInst' = nextInst + 1
       ELSE UNCHANGED <<inst, nextInst>>

\* create(constructor) -> FamilyHandle
create ==
  /\ Ready
  /\ Room
  /\ fam' = [fam EXCEPT ![nextFam] = NewFamily]
  /\ nextFam' = nextFam + 1
  /\ handle' = [handle EXCEPT ![nextHandle] = [fam |-> nextFam, src |-> "none", expect |-> nextFam]]
  /\ nextHandle' = nextHandle + 1
  /\ UNCHANGED macroVars
  /\ UNCHANGED <<statics, inst, nextInst, pc, getVars, faultVars, mainVars>>

\* handle.clone() -> FamilyHandle
handle_clone(h) ==
  /\ Ready
  /\ h \in LiveHandles
  /\ Room
  /\ handle' = [handle EXCEPT ![nextHandle] = [fam |-> handle[h].fam, src |-> "none", expect |-> handle[h].fam]]
  /\ nextHandle' = nextHandle + 1
  /\ fam' = Retain(fam, handle[h].fam)
  /\ UNCHANGED macroVars
  /\ UNCHANGED <<statics, nextFam, inst, nextInst, pc, getVars, faultVars, mainVars>>

\* A Family Handle goes out of scope.
handle_drop(h) ==
  /\ Ready
  /\ h \in LiveHandles
  /\ handle' = [handle EXCEPT ![h] = NoHandle]
  /\ fam' = Release(fam, handle[h].fam)
  /\ UNCHANGED macroVars
  /\ UNCHANGED <<statics, nextFam, nextHandle, inst, nextInst, pc, getVars, faultVars,
                 mainVars>>

\* handle.produce() -> Instance
produce(t, h, ok) ==
  /\ Client(t)
  /\ h \in LiveHandles
  /\ Room
  /\ Constructed(t, handle[h].fam, "produce", -1, 0, handle[h].fam, ok)
  /\ fam' = Invoked(fam, handle[h].fam, ok)
  /\ UNCHANGED macroVars
  /\ UNCHANGED <<statics, nextFam, handle, nextHandle, pc, getVars, mainVars>>

\* family.__private_into(): the consuming conversion; the handle is dropped
\* when the call ends, also when the recipe faults.
private_into(t, h, ok) ==
  /\ Constructed(t, handle[h].fam, "into", -1, 0, handle[h].fam, ok)
  /\ fam' = Release(Invoked(fam, handle[h].fam, ok), handle[h].fam)
  /\ handle' = [handle EXCEPT ![h] = NoHandle]

\* impl From<Family<T>> for T { fn from(family) { family.__private_into() } }
from(t, h, ok) ==
  /\ Client(t)
  /\ h \in LiveHandles
  /\ Room
  /\ private_into(t, h, ok)
  /\ UNCHANGED macroVars
  /\ UNCHANGED <<statics, nextFam, nextHandle, pc, getVars, mainVars>>

\* ::linked::__private::clone(value): a produce() from the value's own family.
private_clone(t, i, ok) ==
  /\ Constructed(t, inst[i].link, "clone", -1, i, inst[i].link, ok)
  /\ fam' = Invoked(fam, inst[i].link, ok)
  /\ UNCHANGED <<nextFam, handle, nextHandle>>

\* What #[derive(Clone)] would generate: a copy of the fields, the Link
\* included; no recipe runs.
clone_fieldwise(t, i, ok) ==
  /\ Client(t)
  /\ i \in Concrete
  /\ Room
  /\ ok
  /\ nextInst \in InstIds
  /\ inst' = [inst EXCEPT ![nextInst] =
                [Linked(new(inst[i].link), inst[i].link, "clone", -1, i, inst[i].link)
                   EXCEPT !.local_count = inst[i].local_count,
                          !.born = inst[i].local_count]]
  /\ nextInst' = nextInst + 1
  /\ fam' = Retain(fam, inst[i].link)
  /\ UNCHANGED macroVars
  /\ UNCHANGED <<statics, nextFam, handle, nextHandle, pc, getVars, faultVars, mainVars>>

\* A clone() that calls the type's constructor again, as EventCounter::new()
\* does: the new instance starts a family of its own.
clone_new_family(t, i, ok) ==
  /\ Client(t)
  /\ i \in Concrete
  /\ Room
  /\ ok
  /\ nextInst \in InstIds
  /\ inst' = [inst EXCEPT ![nextInst] =
                Linked(new(nextFam), nextFam, "clone", -1, i, inst[i].link)]
  /\ nextInst' = nextInst + 1
  /\ fam' = [fam EXCEPT ![nextFam] = NewFamily]
  /\ nextFam' = nextFam + 1
  /\ invocations' = invocations + 1
  /\ UNCHANGED macroVars
  /\ UNCHANGED <<statics, handle, nextHandle, pc, getVars, faults, raised, mainVars>>

\* impl Clone for T { fn clone(&self) { ::linked::__private::clone(self) } }
clone(t, i, ok) ==
  /\ Client(t)
  /\ i \in Concrete
  /\ Room
  /\ private_clone(t, i, ok)
  /\ UNCHANGED macroVars
  /\ UNCHANGED <<statics, pc, getVars, mainVars>>

\* Link::family(): a handle to the Family Identity the link records.
link_family(i) == inst[i].link

\* A family() that answers with a handle to a Family Identity made on the
\* spot instead of the one the Link records.
family_fresh(i) ==
  /\ Ready
  /\ i \in Concrete
  /\ Room
  /\ handle' = [handle EXCEPT ![nextHandle] = [fam |-> nextFam, src |-> inst[i].via, expect |-> inst[i].origin]]
  /\ nextHandle' = nextHandle + 1
  /\ fam' = [fam EXCEPT ![nextFam] = NewFamily]
  /\ nextFam' = nextFam + 1
  /\ UNCHANGED macroVars
  /\ UNCHANGED <<statics, inst, nextInst, pc, getVars, faultVars, mainVars>>

\* A family() that runs the recipe for a scratch instance to read the family
\* from, and drops it again.
family_eager(i) ==
  /\ Ready
  /\ i \in Concrete
  /\ Room
  /\ handle' = [handle EXCEPT ![nextHandle] = [fam |-> link_family(i), src |-> inst[i].via, expect |-> inst[i].origin]]
  /\ nextHandle' = nextHandle + 1
  /\ fam' = Retain(fam, link_family(i))
  /\ invocations' = invocations + 1
  /\ UNCHANGED macroVars
  /\ UNCHANGED <<statics, nextFam, inst, nextInst, pc, getVars, faults, raised, mainVars>>

\* impl Object for T { fn family(&self) { self.__private_linked_link.family() } }
family(i) ==
  /\ Ready
  /\ i \in Concrete
  /\ Room
  /\ handle' = [handle EXCEPT ![nextHandle] = [fam |-> link_family(i), src |-> inst[i].via, expect |-> inst[i].origin]]
  /\ nextHandle' = nextHandle + 1
  /\ fam' = Retain(fam, link_family(i))
  /\ UNCHANGED macroVars
  /\ UNCHANGED <<statics, nextFam, inst, nextInst, pc, getVars, faultVars, mainVars>>

\* An increment() that publishes the instance's own count instead of adding
\* to the shared one: global_count.store(local_count).
increment_store(i) ==
  /\ inst' = [inst EXCEPT ![i].local_count = saturating_add(@, 1),
                          ![i].incs = @ + 1]
  /\ fam' = [fam EXCEPT ![inst[i].global_count].global_count = inst[i].local_count + 1]

\* An increment() on a local_count that the instances of a family share.
increment_family(i) ==
  /\ inst' = [j \in InstIds |->
                IF inst[j].state = "live" /\ inst[j].link = inst[i].link
                  THEN [inst[j] EXCEPT !.local_count = saturating_add(@, 1),
                                       !.incs = IF j = i THEN @ + 1 ELSE @]
                  ELSE inst[j]]
  /\ fam' = [fam EXCEPT ![inst[i].global_count].global_count = fetch_add(@, 1)]

\* EventCounter::increment(&mut self)
increment(i) ==
  /\ inst' = [inst EXCEPT ![i].local_count = saturating_add(@, 1),
                          ![i].incs = @ + 1]
  /\ fam' = [fam EXCEPT ![inst[i].global_count].global_count = fetch_add(@, 1)]

\* CountResult for EventCounter
local_count(i) == inst[i].local_count

global_count(i) == fam[inst[i].global_count].global_count

\* Box::new(counter) as Box<dyn CountResult>: the value is moved into the box;
\* what holds the box sees CountResult only.
box_new(i) == inst' = [inst EXCEPT ![i].erased = TRUE]

\* An instance is dropped: its Link gives up its reference.
drop(i) ==
  /\ inst' = [inst EXCEPT ![i] = Dropped]
  /\ fam' = Release(fam, inst[i].link)

Increment(i) ==
  /\ Ready
  /\ i \in Concrete
  /\ global_count(i) < MaxIncrements
  /\ increment(i)
  /\ UNCHANGED macroVars
  /\ UNCHANGED <<statics, nextFam, handle, nextHandle, nextInst, pc, getVars, faultVars,
                 mainVars>>

Drop(i) ==
  /\ Ready
  /\ i \in LiveInstances
  /\ drop(i)
  /\ UNCHANGED macroVars
  /\ UNCHANGED <<statics, nextFam, handle, nextHandle, nextInst, pc, getVars, faultVars,
                 mainVars>>

\* A client moves an instance into a Box<dyn CountResult>.
Erase(i) ==
  /\ Ready
  /\ i \in Concrete
  /\ box_new(i)
  /\ UNCHANGED macroVars
  /\ UNCHANGED <<statics, fam, nextFam, handle, nextHandle, nextInst, pc, getVars,
                 faultVars, mainVars>>

\* A client thread hands a box to finalize_counter_processing(result): the two
\* methods of CountResult are called on it, and it is dropped on return.
Finalize(w, i) ==
  /\ Client(w)
  /\ i \in LiveInstances
  /\ inst[i].erased
  /\ reported' = [reported EXCEPT ![w] = [local |-> local_count(i),
                                          global |-> global_count(i)]]
  /\ drop(i)
  /\ UNCHANGED macroVars
  /\ UNCHANGED <<statics, nextFam, handle, nextHandle, nextInst, pc, getVars, faultVars,
                 iter, final_count>>

----------------------------------------------------------------------------
(* linked::instances!(static RECORDS_PROCESSED: EventCounter =             *)
(*                    EventCounter::new());                                *)
(* RECORDS_PROCESSED.get() runs in steps: the initialization barrier, the  *)
(* initializer (one thread), the wait of the threads that lost the race,   *)
(* and the construction of the instance the call returns.                  *)

\* Where a thread goes on when its get() call ends.
Continue(t) ==
  IF pc[Main] = "api" THEN "ready" ELSE IF t = Main THEN "read" ELSE "loop"

\* A check-then-initialize without a barrier: every thread that arrives before
\* the initializer has finished runs it.
call_once_racy(t) ==
  /\ once' = once
  /\ pc' = [pc EXCEPT ![t] = IF once = "done" THEN "construct" ELSE "init"]

\* The exactly-once barrier: the first thread to arrive runs the initializer,
\* a thread arriving while it runs waits, a later one goes straight on.
call_once(t) ==
  /\ once' = IF once = "uninit" THEN "running" ELSE once
  /\ pc' = [pc EXCEPT ![t] = CASE once = "uninit" -> "init"
                                [] once = "running" -> "wait"
                                [] OTHER -> "construct"]

\* A thread enters get().
GetBegin(t) ==
  /\ \/ Client(t) /\ Room
     \/ t \in Workers /\ pc[t] = "spawned"
     \/ t = Main /\ pc[t] = "final"
  /\ call_once(t)
  /\ UNCHANGED macroVars
  /\ UNCHANGED <<staticFam, inits, fam, nextFam, handle, nextHandle,
                 inst, nextInst, built, faultVars, mainVars>>

\* The initializer: EventCounter::new() makes the static's Family Identity.
GetInit(t) ==
  /\ pc[t] = "init"
  /\ fam' = [fam EXCEPT ![nextFam] = NewFamily]
  /\ staticFam' = nextFam
  /\ nextFam' = nextFam + 1
  /\ inits' = inits + 1
  /\ once' = "done"
  /\ pc' = [pc EXCEPT ![t] = "construct"]
  /\ UNCHANGED macroVars
  /\ UNCHANGED <<handle, nextHandle, inst, nextInst, getVars, faultVars,
                 mainVars>>

\* A thread that found the initializer running goes on when it has finished.
GetWait(t) ==
  /\ pc[t] = "wait"
  /\ once = "done"
  /\ pc' = [pc EXCEPT ![t] = "construct"]
  /\ UNCHANGED macroVars
  /\ UNCHANGED <<statics, fam, nextFam, handle, nextHandle, inst, nextInst, getVars,
                 faultVars, mainVars>>

\* A get() that keeps the instance of a thread's first call in a per-thread
\* slot and answers later calls of the thread with it: no recipe runs then.
get_cached(t, ok) ==
  IF \E i \in InstIds : inst[i].state = "live" /\ inst[i].by = t
    THEN /\ ok
         /\ UNCHANGED <<inst, nextInst, fam, built, faultVars>>
    ELSE /\ Constructed(t, staticFam, "get", t, 0, staticFam, ok)
         /\ fam' = Invoked(fam, staticFam, ok)
         /\ built' = [built EXCEPT ![t] = @ + 1]

\* `let mut counter = RECORDS_PROCESSED.get();`: the call hands its caller an
\* owned EventCounter of the static's family, built by the family's recipe
\* for this call.
get(t, ok) ==
  /\ Constructed(t, staticFam, "get", t, 0, staticFam, ok)
  /\ fam' = Invoked(fam, staticFam, ok)
  /\ built' = [built EXCEPT ![t] = @ + 1]

GetReturn(t, ok) ==
  /\ pc[t] = "construct"
  /\ get(t, ok)
  /\ pc' = [pc EXCEPT ![t] = Continue(t)]
  /\ UNCHANGED macroVars
  /\ UNCHANGED <<statics, nextFam, handle, nextHandle, mainVars>>

----------------------------------------------------------------------------
(* main() of linked_std_box.rs *)

\* The instance a worker's `counter`, and main's temporary, names: the one
\* the thread's get() returned.
counter(t) == CHOOSE i \in InstIds : inst[i].state = "live" /\ inst[i].by = t

\* for _ in 0..THREAD_COUNT { threads.push(thread::spawn(...)) }
Spawn(w) ==
  /\ pc[Main] = "spawn"
  /\ w = iter[Main] + 1
  /\ pc' = [pc EXCEPT ![w] = "spawned",
                      ![Main] = IF w = THREAD_COUNT THEN "join" ELSE "spawn"]
  /\ iter' = [iter EXCEPT ![Main] = IF w = THREAD_COUNT THEN 0 ELSE w]
  /\ UNCHANGED macroVars
  /\ UNCHANGED <<statics, fam, nextFam, handle, nextHandle, inst, nextInst, getVars,
                 faultVars, reported, final_count>>

\* for _ in 0..RECORDS_PER_THREAD { counter.increment(); }
Loop(w) ==
  /\ w \in Workers
  /\ pc[w] = "loop"
  /\ iter[w] < RECORDS_PER_THREAD
  /\ increment(counter(w))
  /\ iter' = [iter EXCEPT ![w] = @ + 1]
  /\ UNCHANGED macroVars
  /\ UNCHANGED <<statics, nextFam, handle, nextHandle, nextInst, pc, getVars, faultVars,
                 reported, final_count>>

\* let boxed_count_result = Box::new(counter);
Box(w) ==
  /\ w \in Workers
  /\ pc[w] = "loop"
  /\ iter[w] = RECORDS_PER_THREAD
  /\ box_new(counter(w))
  /\ pc' = [pc EXCEPT ![w] = "boxed"]
  /\ UNCHANGED macroVars
  /\ UNCHANGED <<statics, fam, nextFam, handle, nextHandle, nextInst, getVars, faultVars,
                 mainVars>>

\* finalize_counter_processing(boxed_count_result): prints both counts; the
\* box is dropped as the function returns, and the thread ends.
finalize_counter_processing(w) ==
  /\ w \in Workers
  /\ pc[w] = "boxed"
  /\ reported' = [reported EXCEPT ![w] = [local |-> local_count(counter(w)),
                                          global |-> global_count(counter(w))]]
  /\ drop(counter(w))
  /\ pc' = [pc EXCEPT ![w] = "done"]
  /\ UNCHANGED macroVars
  /\ UNCHANGED <<statics, nextFam, handle, nextHandle, nextInst, getVars, faultVars,
                 iter, final_count>>

\* for thread in threads { thread.join().unwrap(); }
Join(w) ==
  /\ pc[Main] = "join"
  /\ w = iter[Main] + 1
  /\ pc[w] = "done"
  /\ pc' = [pc EXCEPT ![Main] = IF w = THREAD_COUNT THEN "final" ELSE "join"]
  /\ iter' = [iter EXCEPT ![Main] = w]
  /\ UNCHANGED macroVars
  /\ UNCHANGED <<statics, fam, nextFam, handle, nextHandle, inst, nextInst, getVars,
                 faultVars, reported, final_count>>

\* let final_count = RECORDS_PROCESSED.get().global_count();
\* the temporary instance is dropped at the end of the statement.
ReadFinal ==
  /\ pc[Main] = "read"
  /\ final_count' = global_count(counter(Main))
  /\ drop(counter(Main))
  /\ pc' = [pc EXCEPT ![Main] = "exit"]
  /\ UNCHANGED macroVars
  /\ UNCHANGED <<statics, nextFam, handle, nextHandle, nextInst, getVars, faultVars,
                 iter, reported>>

----------------------------------------------------------------------------
(* #[linked::object]: entrypoint() and core() of linked_object.rs.  A token *)
(* stream is a sequence of items; a declaration is what syn parses of it:   *)
(* the kind of item ("none": the tokens do not parse as an item), the shape *)
(* of a struct's fields, the fields, the generic parameters and the where   *)
(* clause.                                                                  *)

FieldNames == {"something", "something_else"}
Params == {[name |-> "T", bound |-> "Clone", default |-> ""],
           [name |-> "X", bound |-> "", default |-> "u8"]}
WhereClauses == {"", "where X: Debug"}
SeqsUpTo(S, n) == UNION {[1..k -> S] : k \in 0..n}

Declarations ==
  {[item |-> "Struct", ident |-> "Foo", shape |-> sh, fields |-> fs, generics |-> g,
    where_clause |-> w] :
      sh \in {"Named", "Unnamed"}, fs \in SeqsUpTo(FieldNames, MaxFields),
      g \in SeqsUpTo(Params, MaxParams), w \in WhereClauses}
  \cup
  {[item |-> k, ident |-> "Foo", shape |-> "Unit", fields |-> <<>>, generics |-> g,
    where_clause |-> w] :
      k \in {"Struct", "Enum", "Fn", "none"},
      g \in SeqsUpTo(Params, MaxParams), w \in WhereClauses}

\* #[linked::object] pub(crate) struct EventCounter { local_count, global_count }
EventCounter ==
  [item |-> "Struct", ident |-> "EventCounter", shape |-> "Named",
   fields |-> <<"local_count", "global_count">>, generics |-> <<>>, where_clause |-> ""]

\* syn::parse2::<Item>(input.clone())
parse2(tokens) ==
  IF tokens.item = "none"
    THEN [ok |-> FALSE, item |-> tokens, error |-> "expected item"]
    ELSE [ok |-> TRUE, item |-> tokens, error |-> ""]

Ok(tokens) == [ok |-> TRUE, tokens |-> tokens, error |-> ""]
Err(message) == [ok |-> FALSE, tokens |-> <<>>, error |-> message]

\* item.generics.split_for_impl(): the parameters with their bounds and
\* without their defaults, the parameters' names, the where clause.
split_for_impl(item) ==
  [impl_generics |-> [k \in DOMAIN item.generics |->
                        [name |-> item.generics[k].name, bound |-> item.generics[k].bound]],
   type_generics |-> [k \in DOMAIN item.generics |-> item.generics[k].name],
   where_clause |-> item.where_clause]

\* __private_linked_link: ::linked::__private::Link<Self>
Link == "__private_linked_link"

\* Punctuated::push: the field goes last.
push(fields, f) == Append(fields, f)

\* impl #impl_generics <trait> for #name #type_generics #where_clause { fn ... }
Impl(trait, method, body, item) ==
  [kind |-> "impl", trait |-> trait, ident |-> item.ident,
   impl_generics |-> split_for_impl(item).impl_generics,
   type_generics |-> split_for_impl(item).type_generics,
   where_clause |-> split_for_impl(item).where_clause,
   method |-> method, body |-> body]

\* quote! { #item  impl Object ...  impl Clone ...  impl From ... }
extended(item) ==
  <<[kind |-> "item", item |-> item],
    Impl("::linked::Object", "family", "self.__private_linked_link.family()", item),
    Impl("Clone", "clone", "::linked::__private::clone(self)", item),
    Impl("::std::convert::From<::linked::Family<T>>", "from", "family.__private_into()", item)>>

\* A core() that does not look at the shape of the fields.
core_any_fields(item) ==
  Ok(extended([item EXCEPT !.fields = push(@, Link)]))

\* A core() that puts the Link field first.
core_link_first(item) ==
  IF item.shape # "Named"
    THEN Err("the linked::object attribute must be applied to a struct with named fields")
    ELSE Ok(extended([item EXCEPT !.fields = <<Link>> \o @]))

core(item) ==
  IF item.shape # "Named"
    THEN Err("the linked::object attribute must be applied to a struct with named fields")
    ELSE Ok(extended([item EXCEPT !.fields = push(@, Link)]))

\* crate::syn_helpers::token_stream_and_error(input, &e): the input as it
\* was, followed by the error as a compile_error! invocation.
token_stream_and_error(tokens, e) ==
  <<[kind |-> "tokens", item |-> tokens], [kind |-> "compile_error", message |-> e]>>

\* crate::syn_helpers::contains_compile_error(&result)
contains_compile_error(ts) == \E k \in DOMAIN ts : ts[k].kind = "compile_error"

entrypoint(tokens) ==
  LET item_ast == parse2(tokens)
      result == IF item_ast.ok /\ item_ast.item.item = "Struct"
                  THEN core(item_ast.item)
                  ELSE IF item_ast.ok
                    THEN Err("the linked::object attribute must be applied to a struct")
                    ELSE Err(item_ast.error)
  IN IF result.ok THEN result.tokens ELSE token_stream_and_error(tokens, result.error)

\* The compiler expands the attribute on a declaration.
Expand ==
  /\ output = <<>>
  /\ output' = entrypoint(input)
  /\ UNCHANGED <<input, statics, fam, nextFam, handle, nextHandle, inst, nextInst, pc,
                 getVars, faultVars, mainVars>>

\* The attribute on EventCounter has been expanded when the program runs.
Expanded == input = EventCounter /\ output = entrypoint(EventCounter)

----------------------------------------------------------------------------
(* Specifications *)

Start ==
  /\ once = "uninit"
  /\ staticFam = 0
  /\ inits = 0
  /\ fam = [f \in FamIds |-> NoFamily]
  /\ nextFam = 1
  /\ handle = [h \in HandleIds |-> NoHandle]
  /\ nextHandle = 1
  /\ inst = [i \in InstIds |-> NoInstance]
  /\ nextInst = 1
  /\ built = [t \in Threads |-> 0]
  /\ invocations = 0
  /\ faults = 0
  /\ raised = -1
  /\ iter = [t \in Threads |-> 0]
  /\ reported = [t \in Workers |-> [local |-> -1, global |-> -1]]
  /\ final_count = -1

\* A client of the API: threads that call the operations in any order, with
\* recipes that can fault.
Init ==
  /\ Start
  /\ Expanded
  /\ pc = [t \in Threads |-> IF t = Main THEN "api" ELSE "ready"]

Next ==
  \/ create
  \/ \E h \in HandleIds : handle_clone(h) \/ handle_drop(h)
  \/ \E i \in InstIds : family(i) \/ Increment(i) \/ Drop(i)
  \/ \E t \in Workers, ok \in Outcomes :
       \/ \E h \in HandleIds : produce(t, h, ok) \/ from(t, h, ok)
       \/ \E i \in InstIds : clone(t, i, ok)
       \/ GetReturn(t, ok)
  \/ \E t \in Workers : GetBegin(t) \/ GetInit(t) \/ GetWait(t)

Spec == Init /\ [][Next]_vars

\* The program of linked_std_box.rs: EventCounter::new() cannot fault.
MainInit ==
  /\ Start
  /\ Expanded
  /\ pc = [t \in Threads |-> IF t = Main THEN "spawn" ELSE "unspawned"]

MainNext ==
  \/ \E w \in Workers : Spawn(w) \/ Loop(w) \/ Box(w) \/ finalize_counter_processing(w)
                        \/ Join(w)
  \/ \E t \in Threads : GetBegin(t) \/ GetInit(t) \/ GetWait(t) \/ GetReturn(t, TRUE)
  \/ ReadFinal

SpecMain == MainInit /\ [][MainNext]_vars

\* A client that boxes instances of its families as dyn CountResult and goes
\* on using what it holds; its recipes do not fault.
BoxNext ==
  \/ create
  \/ \E h \in HandleIds :
       \/ handle_drop(h)
       \/ \E t \in Workers : produce(t, h, TRUE)
  \/ \E i \in InstIds :
       \/ Erase(i) \/ Increment(i) \/ family(i)
       \/ \E t \in Workers : clone(t, i, TRUE) \/ Finalize(t, i)

SpecBox == Init /\ [][BoxNext]_vars

\* Compile time: the attribute is expanded on a declaration; no thread runs.
MacroInit ==
  /\ Start
  /\ pc = [t \in Threads |-> "unspawned"]
  /\ input \in Declarations
  /\ output = <<>>

MacroNext == Expand

SpecMacro == MacroInit /\ [][MacroNext]_vars

----------------------------------------------------------------------------
(* Properties *)

\* The instances that calls of RECORDS_PROCESSED.get() returned to thread t.
Got(t) == {i \in LiveInstances : inst[i].via = "get" /\ inst[i].by = t}

\* The holders of Family Identity f: the handles that wrap it, the named
\* static among them, and the live instances linked to it.
Holders(f) ==
  Cardinality({h \in LiveHandles : handle[h].fam = f})
    + Cardinality({i \in LiveInstances : inst[i].link = f})
    + (IF staticFam = f THEN 1 ELSE 0)

\* Thread t returns from get() in this step.
Returns(t) == pc[t] = "construct" /\ pc'[t] # "construct"

\* C1: when the threads of main() touch RECORDS_PROCESSED for the first time
\* concurrently, its initializer runs at most once, and exactly once when any
\* get() goes on to construct; no second Family Identity is ever made for the
\* static, and every thread's instance is linked to that one identity.
C1_InitializedOnce ==
  /\ inits <= 1
  /\ nextFam = inits + 1
  /\ staticFam = inits
  /\ (once = "done") <=> (inits = 1)
  /\ \A t \in Threads : pc[t] = "construct" => inits = 1
  /\ \A i \in LiveInstances : inst[i].via = "get" /\ inst[i].link = staticFam

\* The first touch was concurrent: a thread that arrived while the initializer
\* ran is still waiting when the thread that ran it holds its instance.
C1_Raced ==
  /\ inits = 1
  /\ \E t, u \in Workers :
       /\ pc[u] = "wait"
       /\ Got(t) # {}
       /\ \A i \in Got(t) : inst[i].link = staticFam

C4_Counts ==
  /\ \A w \in Workers : pc[w] = "done" => reported[w].local = RECORDS_PER_THREAD
  /\ \A w \in Workers : \A i \in Got(w) : local_count(i) = iter[w]
  /\ pc[Main] = "exit" => final_count = THREAD_COUNT * RECORDS_PER_THREAD

\* main() has read the final count, and a worker finished while the shared
\* count already held increments of another.
C4_Joined ==
  /\ pc[Main] = "exit"
  /\ final_count = THREAD_COUNT * RECORDS_PER_THREAD
  /\ \E w \in Workers : reported[w].global > reported[w].local

\* C5: the handle that family() returns for an instance made by h.produce(),
\* or by the consuming conversion of h, wraps the Family Identity h wrapped.
C5_ProduceFamily ==
  \A h \in LiveHandles :
    handle[h].src \in {"produce", "into"} => handle[h].fam = handle[h].expect

\* family() has been called on an instance that produce() made.
C5_Produced ==
  \E h \in LiveHandles :
    handle[h].src \in {"produce", "into"} /\ handle[h].fam = handle[h].expect

\* C6: a live instance is linked to one live Family Identity, the one of what
\* it was made from (the handle, the instance cloned, the named static), and
\* the link never changes while the instance lives; so the handle family()
\* returns for a clone of i, or for a get() result, is the one of i.family().
C6_OneFamily ==
  /\ [](\A i \in LiveInstances :
          /\ inst[i].link \in FamIds
          /\ inst[i].link = inst[i].origin
          /\ inst[i].global_count = inst[i].link
          /\ fam[inst[i].link].state = "live"
          /\ inst[i].via = "get" => inst[i].link = staticFam)
  /\ [](\A h \in LiveHandles :
          handle[h].src \in {"clone", "get"} => handle[h].fam = handle[h].expect)
  /\ [][\A i \in InstIds :
          inst[i].state = "live" /\ inst'[i].state = "live"
            => inst'[i].link = inst[i].link]_vars

\* family() has been called on a clone of a get() result.
C6_CloneFamily ==
  \E h \in LiveHandles : \E i \in LiveInstances :
    /\ handle[h].src = "clone"
    /\ inst[i].via = "get"
    /\ handle[h].fam = inst[i].link

\* C7: every instance ever made, clones included, cost one invocation of the
\* recipe, and a clone starts with the recipe's initial local_count (0),
\* whatever the local_count of the instance it was cloned from.
C7_CloneIsProduce ==
  /\ invocations = (nextInst - 1) + faults
  /\ \A i \in InstIds : inst[i].via = "clone" => inst[i].born = 0

\* An instance whose local_count was above 0 has been cloned.
C7_ClonedAfterIncrement ==
  \E i \in LiveInstances :
    inst[i].via = "clone" /\ inst[i].parentLocal > 0 /\ inst[i].born = 0

\* C8: every instance starts with the recipe's initial local_count, and its
\* local_count is the number of increment() calls made on it, whatever was
\* done to other instances of its family; the shared global_count is the same
\* seen from every instance of the family and counts the increments of all.
C8_Independent ==
  /\ \A i \in LiveInstances : inst[i].born = 0 /\ local_count(i) = inst[i].incs
  /\ \A i, j \in LiveInstances :
       i # j /\ inst[i].link = inst[j].link
         => /\ global_count(i) = global_count(j)
            /\ global_count(i) >= inst[i].incs + inst[j].incs

\* Two instances of one family, neither from get(): one was incremented, the
\* other still shows 0 while the shared count shows the increment.
C8_OneMutated ==
  \E i, j \in LiveInstances :
    /\ i # j
    /\ inst[i].link = inst[j].link
    /\ inst[i].via # "get" /\ inst[j].via # "get"
    /\ local_count(i) > 0
    /\ local_count(j) = 0
    /\ global_count(j) > 0

\* C9: a step in which a recipe faults in produce() or get() creates no
\* instance and changes no Family Identity; the fault reaches the calling
\* thread, which is back between operations, and no other thread moves; and
\* an instance made after a fault is a live instance of the family it was
\* asked of.
C9_FaultIsLocal ==
  /\ [][faults' = faults + 1 /\ handle' = handle
          => /\ inst' = inst
             /\ nextInst' = nextInst
             /\ fam' = fam
             /\ <<once, staticFam, inits, nextFam>>' = <<once, staticFam, inits, nextFam>>
             /\ raised' \in Workers
             /\ pc'[raised'] = "ready"
             /\ \A u \in Threads \ {raised'} : pc'[u] = pc[u]]_vars
  /\ [](\A i \in LiveInstances :
          inst[i].after > 0 => /\ inst[i].link = inst[i].origin
                               /\ fam[inst[i].link].state = "live")

\* A recipe faulted, and a later call on the same family succeeded.
C9_SuccessAfterFault ==
  \E i \in LiveInstances : inst[i].after > 0 /\ raised \in Workers

\* C10: the reference count of a Family Identity is the number of its
\* holders; it lives as long as it has one and is destroyed when the last is
\* dropped.
C10_RefCount ==
  \A f \in FamIds :
    /\ fam[f].rc = Holders(f)
    /\ (f >= nextFam) <=> (fam[f].state = "unborn")
    /\ (fam[f].state = "live") <=> (Holders(f) > 0)
    /\ (fam[f].state = "dead") <=> (f < nextFam /\ Holders(f) = 0)

\* One Family Identity was destroyed with its last holder while another is
\* kept alive by an instance alone.
C10_Destroyed ==
  \E f, g \in FamIds :
    /\ fam[f].state = "dead"
    /\ fam[g].state = "live"
    /\ \A h \in LiveHandles : handle[h].fam # g
    /\ staticFam # g

\* C11: an instance moved into a Box<dyn CountResult> stays as it is until it
\* is dropped (nothing widens it back, nothing mutates it), its Link keeps
\* naming the live Family Identity it was made from, and every clone and
\* every handle that family() returns comes from an instance that is not
\* boxed: of a family held through boxes only, no step makes either.
C11_OneWayNarrowing ==
  /\ [](\A i \in LiveInstances :
          inst[i].erased => /\ inst[i].link \in FamIds
                            /\ inst[i].link = inst[i].origin
                            /\ fam[inst[i].link].state = "live"
                            /\ fam[inst[i].link].rc >= 1)
  /\ [][\A i \in InstIds :
          inst[i].state = "live" /\ inst[i].erased
            => inst'[i] = inst[i] \/ inst'[i].state = "dropped"]_vars
  /\ [][nextInst' # nextInst /\ inst'[nextInst].via = "clone"
          => \E j \in InstIds :
               /\ inst[j].state = "live" /\ ~inst[j].erased
               /\ inst[j].link = inst'[nextInst].link
               /\ inst[j].local_count = inst'[nextInst].parentLocal]_vars
  /\ [][nextHandle' # nextHandle /\ handle'[nextHandle].src # "none"
          => \E j \in InstIds :
               /\ inst[j].state = "live" /\ ~inst[j].erased
               /\ inst[j].link = handle'[nextHandle].fam
               /\ inst[j].via = handle'[nextHandle].src]_vars

\* A client holds a boxed instance that was incremented before it was boxed,
\* and nothing else: no other instance, no handle.
C11_OnlyBoxed ==
  /\ \E i \in LiveInstances : inst[i].erased /\ inst[i].incs > 0
  /\ \A i \in LiveInstances : inst[i].erased
  /\ \A h \in HandleIds : handle[h].fam = 0
  /\ \A t \in Threads : ~InGet(t)

\* C14: a step of handle.clone() or family() (a new handle, no new Family
\* Identity) runs no recipe and makes no instance; it leaves every instance,
\* every other handle, the threads and the named static as they were, and of
\* the Family Identities it changes one thing: the reference count of the
\* live identity the new handle wraps, a holder of which was the source,
\* goes up by one.
C14_HandleOnly ==
  [][nextHandle' = nextHandle + 1 /\ nextFam' = nextFam
       => /\ inst' = inst
          /\ nextInst' = nextInst
          /\ <<invocations, faults, raised, built>>' = <<invocations, faults, raised, built>>
          /\ <<once, staticFam, inits, pc>>' = <<once, staticFam, inits, pc>>
          /\ \A h \in HandleIds \ {nextHandle} : handle'[h] = handle[h]
          /\ \E f \in FamIds :
               /\ handle'[nextHandle].fam = f
               /\ fam[f].state = "live"
               /\ fam' = [fam EXCEPT ![f].rc = @ + 1]
               /\ \/ \E h \in LiveHandles : handle[h].fam = f
                  \/ \E i \in LiveInstances : inst[i].link = f]_vars

\* Beside the named static, a handle that family() returned and a clone of a
\* handle wrap one Family Identity that an instance is linked to.
C14_BothMade ==
  \E h, k \in LiveHandles : \E i \in LiveInstances :
    /\ handle[h].src # "none"
    /\ handle[k].src = "none"
    /\ handle[h].fam = staticFam
    /\ handle[k].fam = staticFam
    /\ inst[i].link = staticFam
    /\ fam[staticFam].rc = 4

\* C12: for a declaration that is not a struct, that is a struct without
\* named fields (a tuple or a unit struct), or that does not parse, the
\* expansion contains a compile error and nothing generated: no impl, and the
\* declaration as it was given, without a Link field.
C12_RejectsInvalid ==
  output # <<>> /\ (input.item # "Struct" \/ input.shape # "Named")
    => /\ contains_compile_error(output)
       /\ \A k \in DOMAIN output :
            /\ output[k].kind \in {"tokens", "compile_error"}
            /\ output[k].kind = "tokens" => output[k].item = input

\* The attribute was applied to a tuple struct of two fields, as in the test
\* with_unnamed_fields_fails, and the expansion holds a compile error.
C12_TupleStruct ==
  /\ input.item = "Struct"
  /\ input.shape = "Unnamed"
  /\ Len(input.fields) = 2
  /\ contains_compile_error(output)

\* C13: for a struct with named fields the expansion is the struct, with its
\* fields in order and the Link field, once, after them, then three impls:
\* Object with family() calling the Link's family(), Clone with clone()
\* calling ::linked::__private::clone(self), and From<Family<T>> with from()
\* calling family.__private_into(); each impl carries the struct's name, its
\* generic parameters with their bounds, and its where clause.
C13_Expansion ==
  output # <<>> /\ input.item = "Struct" /\ input.shape = "Named"
    => /\ Len(output) = 4
       /\ ~contains_compile_error(output)
       /\ output[1].kind = "item"
       /\ LET fs == output[1].item.fields
              n == Len(input.fields)
          IN /\ Len(fs) = n + 1
             /\ \A j \in 1..n : fs[j] = input.fields[j]
             /\ fs[n + 1] = Link
             /\ Cardinality({j \in DOMAIN fs : fs[j] = Link}) = 1
             /\ output[1].item = [input EXCEPT !.fields = fs]
       /\ \A k \in 2..4 :
            /\ output[k].kind = "impl"
            /\ output[k].ident = input.ident
            /\ output[k].where_clause = input.where_clause
            /\ DOMAIN output[k].impl_generics = DOMAIN input.generics
            /\ DOMAIN output[k].type_generics = DOMAIN input.generics
            /\ \A j \in DOMAIN input.generics :
                 /\ output[k].impl_generics[j].name = input.generics[j].name
                 /\ output[k].impl_generics[j].bound = input.generics[j].bound
                 /\ output[k].type_generics[j] = input.generics[j].name
       /\ <<output[2].trait, output[2].method, output[2].body>>
            = <<"::linked::Object", "family", "self.__private_linked_link.family()">>
       /\ <<output[3].trait, output[3].method, output[3].body>>
            = <<"Clone", "clone", "::linked::__private::clone(self)">>
       /\ <<output[4].trait, output[4].method, output[4].body>>
            = <<"::std::convert::From<::linked::Family<T>>", "from", "family.__private_into()">>

\* The attribute was expanded on a generic struct with two named fields and a
\* where clause, as in the test smoke_test_with_generics.
C13_Generic ==
  /\ Len(output) = 4
  /\ input.shape = "Named"
  /\ Len(input.fields) = 2
  /\ input.fields[1] # input.fields[2]
  /\ input.generics # <<>>
  /\ input.where_clause # ""
  /\ output[1].item.fields[3] = Link

====
